---- MODULE Spec2Model ----
(***************************************************************************)
(* Hotel and activity services of the event back end.                      *)
(*                                                                         *)
(* The store (enrollments, tickets, bookings, hotels, rooms, activities,   *)
(* activity registrations) is the state.  Every service operation is one   *)
(* action of Spec (one request at a time, the whole handler in one step).  *)
(* SpecConc runs createUserActivity as the sequence of its awaits, one     *)
(* store access per step, for several requests at once.  SpecMerge runs    *)
(* getActivities over registration tables of any shape.                    *)
(***************************************************************************)
EXTENDS Naturals, Integers, Sequences, FiniteSets

MaxUsers == 2
MaxHotels == 1
MaxRooms == 1
MaxActivities == 3
MaxCalls == 2

Users == 1..MaxUsers
\* ids a request may name: one more than can exist, so that some id is absent
HotelIds == 1..(MaxHotels + 1)
ActivityIds == 1..(MaxActivities + 1)
Calls == 1..MaxCalls

VARIABLES
    enrollments,     \* table Enrollment: {[id, userId]}, at most one per user
    tickets,         \* table Ticket joined with TicketType, at most one per enrollment
    bookings,        \* table Booking: {[userId, roomId]}
    hotels,          \* table Hotel, in store order: <<[id, name]>>
    rooms,           \* table Room: {[id, hotelId]}
    activities,      \* table Activities, in store order: <<[id, day]>>
    userActivities,  \* table UserActivities: {[id, userId, activityId]}
    last,            \* the last request served and its response (Spec, SpecMerge)
    calls            \* requests in flight, one record per slot (SpecConc)

vars == <<enrollments, tickets, bookings, hotels, rooms, activities,
          userActivities, last, calls>>

store == <<enrollments, tickets, bookings, hotels, rooms, activities>>

----------------------------------------------------------------------------
(* Repositories.  A lookup returns a set: empty for null, else one row.    *)

EnrollmentIdOf(u) == MaxUsers + 1 - u

findWithAddressByUserId(userId) ==
    {e \in enrollments : e.userId = userId}

findTicketByEnrollmentId(enrollmentId) ==
    {t \in tickets : t.enrollmentId = enrollmentId}

findByUserId(userId) ==
    {b \in bookings : b.userId = userId}

findHotels == hotels

\* findRoomsByHotelId with the where clause lost: the first hotel, if any
findRoomsByHotelId_NoWhere(hotelId) ==
    {[id |-> hotels[i].id, name |-> hotels[i].name,
      Rooms |-> {r \in rooms : r.hotelId = hotels[i].id}] :
        i \in {j \in DOMAIN hotels : j = 1}}

findRoomsByHotelId(hotelId) ==
    {[id |-> hotels[i].id, name |-> hotels[i].name,
      Rooms |-> {r \in rooms : r.hotelId = hotels[i].id}] :
        i \in {j \in DOMAIN hotels : hotels[j].id = hotelId}}

findAllHotelsWithRooms ==
    [i \in DOMAIN hotels |->
        [id |-> hotels[i].id, name |-> hotels[i].name,
         Rooms |-> {[id |-> r.id, hotelId |-> r.hotelId,
                     Booking |-> {b \in bookings : b.roomId = r.id}] :
                        r \in {q \in rooms : q.hotelId = hotels[i].id}}]]

findAllActivities == activities

findUserActivities(userId) ==
    {ua \in userActivities : ua.userId = userId}

ActivityExists(activityId) ==
    \E i \in DOMAIN activities : activities[i].id = activityId

NewRegistration(userId, activityId) ==
    [id |-> Cardinality(userActivities) + 1, userId |-> userId,
     activityId |-> activityId]

\* the outcome of the insert: the unique index on userId is checked first,
\* the foreign key to Activities second
registerInActivity(userId, activityId) ==
    IF findUserActivities(userId) # {}
      THEN [status |-> "Conflict", body |-> <<>>, table |-> userActivities]
    ELSE IF ~ActivityExists(activityId)
      THEN [status |-> "BadRequest", body |-> <<>>, table |-> userActivities]
    ELSE [status |-> "OK",
          body |-> <<NewRegistration(userId, activityId)>>,
          table |-> userActivities \cup {NewRegistration(userId, activityId)}]

----------------------------------------------------------------------------
(* Guards.  The value is "OK" or the error thrown.                         *)

TicketRejected(ticket) ==
    \/ ticket = {}
    \/ \E t \in ticket : t.status = "RESERVED" \/ t.TicketType.isRemote

\* listHotels without the enrollment check: enrollment.id of null throws
listHotels_NoEnrollmentCheck(userId) ==
    LET enrollment == findWithAddressByUserId(userId) IN
    IF enrollment = {} THEN "InternalServerError"
    ELSE LET ticket == UNION {findTicketByEnrollmentId(e.id) : e \in enrollment} IN
         IF \/ TicketRejected(ticket)
            \/ \E t \in ticket : ~t.TicketType.includesHotel
           THEN "CannotListHotels"
         ELSE "OK"

\* listHotels without the includesHotel condition
listHotels_NoIncludesHotel(userId) ==
    LET enrollment == findWithAddressByUserId(userId) IN
    IF enrollment = {} THEN "NotFound"
    ELSE LET ticket == UNION {findTicketByEnrollmentId(e.id) : e \in enrollment} IN
         IF TicketRejected(ticket) THEN "CannotListHotels"
         ELSE "OK"

listHotels(userId) ==
    LET enrollment == findWithAddressByUserId(userId) IN
    IF enrollment = {} THEN "NotFound"
    ELSE LET ticket == UNION {findTicketByEnrollmentId(e.id) : e \in enrollment} IN
         IF \/ TicketRejected(ticket)
            \/ \E t \in ticket : ~t.TicketType.includesHotel
           THEN "CannotListHotels"
         ELSE "OK"

\* listActivities with the booking looked up before the ticket is checked
listActivities_BookingFirst(userId) ==
    LET enrollment == findWithAddressByUserId(userId) IN
    IF enrollment = {} THEN "NotFound"
    ELSE LET ticket == UNION {findTicketByEnrollmentId(e.id) : e \in enrollment} IN
         IF findByUserId(userId) = {} THEN "NotFound"
         ELSE IF TicketRejected(ticket) THEN "CannotListActivities"
         ELSE "OK"

\* listActivities without the booking check
listActivities_NoBookingCheck(userId) ==
    LET enrollment == findWithAddressByUserId(userId) IN
    IF enrollment = {} THEN "NotFound"
    ELSE LET ticket == UNION {findTicketByEnrollmentId(e.id) : e \in enrollment} IN
         IF TicketRejected(ticket) THEN "CannotListActivities"
         ELSE "OK"

listActivities(userId) ==
    LET enrollment == findWithAddressByUserId(userId) IN
    IF enrollment = {} THEN "NotFound"
    ELSE LET ticket == UNION {findTicketByEnrollmentId(e.id) : e \in enrollment} IN
         IF TicketRejected(ticket) THEN "CannotListActivities"
         ELSE IF findByUserId(userId) = {} THEN "NotFound"
         ELSE "OK"

----------------------------------------------------------------------------
(* The merge of getActivities: one entry per activity, in catalog order.   *)

\* the merge comparing the activity's id with the registration's own id
activitiesWithUser_ById(acts, userActs) ==
    [i \in DOMAIN acts |->
        [id |-> acts[i].id, day |-> acts[i].day,
         userSubscribed |-> \E ua \in userActs : acts[i].id = ua.id]]

activitiesWithUser(acts, userActs) ==
    [i \in DOMAIN acts |->
        [id |-> acts[i].id, day |-> acts[i].day,
         userSubscribed |-> \E ua \in userActs : acts[i].id = ua.activityId]]

----------------------------------------------------------------------------
Response(op, userId, arg, status, body) ==
    [op |-> op, userId |-> userId, arg |-> arg, status |-> status, body |-> body]

NoCall == [pc |-> "idle", userId |-> 0, activityId |-> 0, enrollmentId |-> 0,
           status |-> "", body |-> <<>>]

\* what a user's ticket can be: none, or a status with its type's two flags
TicketChoices ==
    {{}} \cup {{[status |-> s, TicketType |-> [isRemote |-> r, includesHotel |-> h]]} :
                  s \in {"RESERVED", "PAID"}, r \in BOOLEAN, h \in BOOLEAN}

\* A user's records: enrolled or not, the enrollment's ticket, the booked room
\* (0: no booking).
Profiles(nR) ==
    {[enrolled |-> FALSE, ticket |-> {}, room |-> b] : b \in 0..nR}
    \cup {[enrolled |-> TRUE, ticket |-> t, room |-> b] :
              t \in TicketChoices, b \in 0..nR}

StoreOf(nH, nR, nA, prof) ==
    /\ hotels = [i \in 1..nH |-> [id |-> i, name |-> i]]
    /\ rooms = {[id |-> r, hotelId |-> ((r - 1) % nH) + 1] : r \in 1..nR}
    /\ activities = [i \in 1..nA |-> [id |-> i, day |-> i]]
    /\ enrollments = {[id |-> EnrollmentIdOf(u), userId |-> u] :
                         u \in {v \in Users : prof[v].enrolled}}
    /\ tickets = UNION {{[enrollmentId |-> EnrollmentIdOf(u), status |-> t.status,
                          TicketType |-> t.TicketType] : t \in prof[u].ticket} :
                        u \in Users}
    /\ bookings = {[userId |-> u, roomId |-> prof[u].room] :
                      u \in {v \in Users : prof[v].room > 0}}

\* Every store within the bounds: a room belongs to a hotel, a ticket to an
\* enrollment, a booking to a room.
InitStore ==
    \E nH \in 0..MaxHotels, nA \in 0..MaxActivities :
    \E nR \in 0..(IF nH = 0 THEN 0 ELSE MaxRooms) :
    \E prof \in [Users -> Profiles(nR)] :
        StoreOf(nH, nR, nA, prof)

Init ==
    /\ InitStore
    /\ userActivities = {}
    /\ last = Response("none", 0, 0, "", <<>>)
    /\ calls = [c \in Calls |-> NoCall]

----------------------------------------------------------------------------
(* Services, one request per step.                                         *)

getHotels(userId) ==
    /\ last' = IF listHotels(userId) # "OK"
                 THEN Response("getHotels", userId, 0, listHotels(userId), <<>>)
               ELSE Response("getHotels", userId, 0, "OK", findHotels)
    /\ UNCHANGED <<store, userActivities, calls>>

getHotelsWithRooms(userId, hotelId) ==
    /\ last' = IF listHotels(userId) # "OK"
                 THEN Response("getHotelsWithRooms", userId, hotelId,
                               listHotels(userId), <<>>)
               ELSE IF findRoomsByHotelId(hotelId) = {}
                 THEN Response("getHotelsWithRooms", userId, hotelId, "NotFound", <<>>)
               ELSE Response("getHotelsWithRooms", userId, hotelId, "OK",
                             <<CHOOSE h \in findRoomsByHotelId(hotelId) : TRUE>>)
    /\ UNCHANGED <<store, userActivities, calls>>

getAllHotelsWithRooms(userId) ==
    /\ last' = IF listHotels(userId) # "OK"
                 THEN Response("getAllHotelsWithRooms", userId, 0,
                               listHotels(userId), <<>>)
               ELSE Response("getAllHotelsWithRooms", userId, 0, "OK",
                             findAllHotelsWithRooms)
    /\ UNCHANGED <<store, userActivities, calls>>

getActivities(userId) ==
    /\ last' = IF listActivities(userId) # "OK"
                 THEN Response("getActivities", userId, 0, listActivities(userId), <<>>)
               ELSE Response("getActivities", userId, 0, "OK",
                             activitiesWithUser(findAllActivities,
                                                findUserActivities(userId)))
    /\ UNCHANGED <<store, userActivities, calls>>

\* createUserActivity passing its arguments to the repository in the wrong order
createUserActivity_SwappedArgs(userId, activityId) ==
    /\ IF listActivities(userId) # "OK"
         THEN /\ last' = Response("createUserActivity", userId, activityId,
                                  listActivities(userId), <<>>)
              /\ UNCHANGED userActivities
       ELSE LET r == registerInActivity(activityId, userId) IN
            /\ last' = Response("createUserActivity", userId, activityId,
                                r.status, r.body)
            /\ userActivities' = r.table
    /\ UNCHANGED <<store, calls>>

\* createUserActivity swallowing the repository's rejection
createUserActivity_SwallowError(userId, activityId) ==
    /\ IF listActivities(userId) # "OK"
         THEN /\ last' = Response("createUserActivity", userId, activityId,
                                  listActivities(userId), <<>>)
              /\ UNCHANGED userActivities
       ELSE LET r == registerInActivity(userId, activityId) IN
            /\ last' = Response("createUserActivity", userId, activityId,
                                "OK", r.body)
            /\ userActivities' = r.table
    /\ UNCHANGED <<store, calls>>

createUserActivity(userId, activityId) ==
    /\ IF listActivities(userId) # "OK"
         THEN /\ last' = Response("createUserActivity", userId, activityId,
                                  listActivities(userId), <<>>)
              /\ UNCHANGED userActivities
       ELSE LET r == registerInActivity(userId, activityId) IN
            /\ last' = Response("createUserActivity", userId, activityId,
                                r.status, r.body)
            /\ userActivities' = r.table
    /\ UNCHANGED <<store, calls>>

Next ==
    \/ \E u \in Users : getHotels(u)
    \/ \E u \in Users, h \in HotelIds : getHotelsWithRooms(u, h)
    \/ \E u \in Users : getAllHotelsWithRooms(u)
    \/ \E u \in Users : getActivities(u)
    \/ \E u \in Users, a \in ActivityIds : createUserActivity(u, a)

Spec == Init /\ [][Next]_vars

----------------------------------------------------------------------------
(* createUserActivity as its awaits: each step is one store access of one  *)
(* request; steps of different requests interleave freely.                 *)

Finish(c, status, body) ==
    calls' = [calls EXCEPT ![c].pc = "done", ![c].status = status, ![c].body = body]

BeginCreate(c, userId, activityId) ==
    /\ calls[c].pc = "idle"
    /\ calls' = [calls EXCEPT ![c].pc = "enrollment", ![c].userId = userId,
                              ![c].activityId = activityId]
    /\ UNCHANGED <<store, userActivities, last>>

AwaitEnrollment(c) ==
    /\ calls[c].pc = "enrollment"
    /\ LET enrollment == findWithAddressByUserId(calls[c].userId) IN
       IF enrollment = {} THEN Finish(c, "NotFound", <<>>)
       ELSE calls' = [calls EXCEPT ![c].pc = "ticket",
                        ![c].enrollmentId = (CHOOSE e \in enrollment : TRUE).id]
    /\ UNCHANGED <<store, userActivities, last>>

AwaitTicket(c) ==
    /\ calls[c].pc = "ticket"
    /\ IF TicketRejected(findTicketByEnrollmentId(calls[c].enrollmentId))
         THEN Finish(c, "CannotListActivities", <<>>)
       ELSE calls' = [calls EXCEPT ![c].pc = "booking"]
    /\ UNCHANGED <<store, userActivities, last>>

AwaitBooking(c) ==
    /\ calls[c].pc = "booking"
    /\ IF findByUserId(calls[c].userId) = {}
         THEN Finish(c, "NotFound", <<>>)
       ELSE calls' = [calls EXCEPT ![c].pc = "register"]
    /\ UNCHANGED <<store, userActivities, last>>

\* the insert step passing its arguments in the wrong order
AwaitRegister_SwappedArgs(c) ==
    /\ calls[c].pc = "register"
    /\ LET r == registerInActivity(calls[c].activityId, calls[c].userId) IN
       /\ Finish(c, r.status, r.body)
       /\ userActivities' = r.table
    /\ UNCHANGED <<store, last>>

AwaitRegister(c) ==
    /\ calls[c].pc = "register"
    /\ LET r == registerInActivity(calls[c].userId, calls[c].activityId) IN
       /\ Finish(c, r.status, r.body)
       /\ userActivities' = r.table
    /\ UNCHANGED <<store, last>>

NextConc ==
    \/ \E c \in Calls, u \in Users, a \in ActivityIds : BeginCreate(c, u, a)
    \/ \E c \in Calls : AwaitEnrollment(c)
    \/ \E c \in Calls : AwaitTicket(c)
    \/ \E c \in Calls : AwaitBooking(c)
    \/ \E c \in Calls : AwaitRegister(c)

SpecConc == Init /\ [][NextConc]_vars

----------------------------------------------------------------------------
(* getActivities over any registration table: a user may hold no, one or   *)
(* several registrations.                                                   *)

\* the table holding one row per pair of regs, ids in row order
TableOf(regs, nA) ==
    {[id |-> (p[1] - 1) * nA + p[2], userId |-> p[1], activityId |-> p[2]] :
        p \in regs}

InitMerge ==
    /\ InitStore
    /\ \E regs \in SUBSET (Users \X (1..Len(activities))) :
          userActivities = TableOf(regs, Len(activities))
    /\ last = Response("none", 0, 0, "", <<>>)
    /\ calls = [c \in Calls |-> NoCall]

NextMerge == \E u \in Users : getActivities(u)

SpecMerge == InitMerge /\ [][NextMerge]_vars

----------------------------------------------------------------------------
(* What the checked statements speak of.                                   *)

HotelOps == {"getHotels", "getHotelsWithRooms", "getAllHotelsWithRooms"}
ActivityOps == {"getActivities", "createUserActivity"}

HasEnrollment(u) == \E e \in enrollments : e.userId = u
HasBooking(u) == \E b \in bookings : b.userId = u
TicketsOf(u) ==
    {t \in tickets : \E e \in enrollments : e.userId = u /\ e.id = t.enrollmentId}
RegistrationsOf(u) == {ua \in userActivities : ua.userId = u}

\* no ticket, a RESERVED one, or one of a remote type
Unpaid(u) ==
    \/ TicketsOf(u) = {}
    \/ \E t \in TicketsOf(u) : t.status = "RESERVED" \/ t.TicketType.isRemote

\* a PAID ticket of an in-person type
PaidInPerson(u) ==
    /\ HasEnrollment(u)
    /\ \E t \in TicketsOf(u) : t.status = "PAID" /\ ~t.TicketType.isRemote

IncludesHotel(u) == \E t \in TicketsOf(u) : t.TicketType.includesHotel

Eligible(u) == PaidInPerson(u) /\ HasBooking(u)

Forbidden(op) ==
    IF op \in HotelOps THEN "CannotListHotels" ELSE "CannotListActivities"

----------------------------------------------------------------------------
\* C1: a request of a user with no enrollment is answered NotFound by each of
\* the five operations, whatever else the store holds, and no registration
\* is ever held by such a user.
C1_NoEnrollmentNotFound ==
    /\ (last.op \in HotelOps \cup ActivityOps /\ ~HasEnrollment(last.userId))
          => (last.status = "NotFound" /\ last.body = <<>>)
    /\ \A ua \in userActivities : HasEnrollment(ua.userId)

C1_Witness ==
    /\ last.op = "createUserActivity"
    /\ ~HasEnrollment(last.userId)
    /\ HasBooking(last.userId)
    /\ ActivityExists(last.arg)
    /\ tickets # {}
    /\ userActivities # {}
    /\ last.status = "NotFound"

\* C2: with an enrollment and no ticket, a RESERVED ticket or a ticket of a
\* remote type, every hotel operation and every activity operation is
\* answered with its Forbidden error, whatever includesHotel is and whether
\* or not the user has a booking.
C2_UnpaidForbidden ==
    (/\ last.op \in HotelOps \cup ActivityOps
     /\ HasEnrollment(last.userId)
     /\ Unpaid(last.userId))
        => (last.status = Forbidden(last.op) /\ last.body = <<>>)

C2_Witness ==
    /\ last.op = "getActivities"
    /\ HasEnrollment(last.userId)
    /\ \E t \in TicketsOf(last.userId) :
          t.status = "PAID" /\ t.TicketType.isRemote /\ t.TicketType.includesHotel
    /\ ~HasBooking(last.userId)
    /\ last.status = "CannotListActivities"

\* C3: with a PAID ticket of an in-person type that does not include the
\* hotel, every hotel operation is answered Forbidden, while an activity
\* operation passes the ticket check: it is answered NotFound exactly when
\* the user has no booking, and never Forbidden.
C3_IncludesHotelAsymmetry ==
    (PaidInPerson(last.userId) /\ ~IncludesHotel(last.userId))
        => /\ last.op \in HotelOps
                => (last.status = "CannotListHotels" /\ last.body = <<>>)
           /\ last.op \in ActivityOps
                => /\ last.status # "CannotListActivities"
                   /\ last.status = "NotFound" <=> ~HasBooking(last.userId)

C3_Witness ==
    /\ last.op = "getActivities"
    /\ PaidInPerson(last.userId)
    /\ ~IncludesHotel(last.userId)
    /\ HasBooking(last.userId)
    /\ last.status = "OK"

C5_PaidWithoutBookingSucceeds ==
    (/\ last.op \in ActivityOps
     /\ PaidInPerson(last.userId)
     /\ ~HasBooking(last.userId)
     /\ last.op = "createUserActivity" => ActivityExists(last.arg))
        => /\ last.status = "OK"
           /\ last.op = "createUserActivity"
                => \E ua \in userActivities :
                      /\ last.body = <<ua>>
                      /\ ua.userId = last.userId
                      /\ ua.activityId = last.arg

\* C6: when the activity guard passes, getActivities answers with one entry
\* per activity of the catalog, in catalog order and with the activity's
\* fields, and an entry's userSubscribed is true exactly when a registration
\* of the requesting user names that activity; other users' registrations
\* do not count.  The user may hold no, one or several registrations.
C6_SubscriptionMerge ==
    (last.op = "getActivities" /\ Eligible(last.userId))
        => /\ last.status = "OK"
           /\ Len(last.body) = Len(activities)
           /\ \A i \in DOMAIN activities :
                /\ last.body[i].id = activities[i].id
                /\ last.body[i].day = activities[i].day
                /\ last.body[i].userSubscribed
                     <=> \E ua \in userActivities :
                            /\ ua.userId = last.userId
                            /\ ua.activityId = activities[i].id

C6_Witness ==
    /\ last.op = "getActivities"
    /\ last.status = "OK"
    /\ Cardinality(RegistrationsOf(last.userId)) >= 2
    /\ \E i \in DOMAIN last.body :
          /\ ~last.body[i].userSubscribed
          /\ \E ua \in userActivities :
                ua.userId # last.userId /\ ua.activityId = last.body[i].id
    /\ \E i \in DOMAIN last.body : last.body[i].userSubscribed

\* C7: a createUserActivity of an eligible user who holds no registration,
\* naming an existing activity, succeeds, returns a new registration with the
\* request's userId and activityId and adds exactly that row; a
\* createUserActivity of an eligible user who already holds a registration
\* is answered Conflict, whatever activity it names, and leaves the table as
\* it was.
C7_Step ==
    (last'.op = "createUserActivity" /\ Eligible(last'.userId))
        => IF RegistrationsOf(last'.userId) = {}
             THEN ActivityExists(last'.arg)
                    => /\ last'.status = "OK"
                       /\ Len(last'.body) = 1
                       /\ last'.body[1].userId = last'.userId
                       /\ last'.body[1].activityId = last'.arg
                       /\ last'.body[1] \notin userActivities
                       /\ userActivities' = userActivities \cup {last'.body[1]}
           ELSE /\ last'.status = "Conflict"
                /\ last'.body = <<>>
                /\ userActivities' = userActivities

C7_FirstThenConflict == [][C7_Step]_vars

C7_Witness ==
    /\ last.op = "createUserActivity"
    /\ last.status = "Conflict"
    /\ Eligible(last.userId)
    /\ ActivityExists(last.arg)
    /\ \E ua \in RegistrationsOf(last.userId) : ua.activityId # last.arg
    /\ Cardinality(RegistrationsOf(last.userId)) = 1

\* C8: whatever the interleaving of the steps of concurrent
\* createUserActivity requests, no user holds more than one registration;
\* among the finished requests of one eligible user that name an existing
\* activity exactly one succeeded and every other one ended with Conflict;
\* and a request's outcome does not depend on the requests of other users.
C8_OneRegistrationPerUser ==
    /\ \A u \in Users : Cardinality(RegistrationsOf(u)) <= 1
    /\ \A c \in Calls :
         (/\ calls[c].pc = "done"
          /\ Eligible(calls[c].userId)
          /\ ActivityExists(calls[c].activityId))
            => /\ calls[c].status \in {"OK", "Conflict"}
               /\ calls[c].status = "Conflict"
                    <=> \E d \in Calls \ {c} :
                           /\ calls[d].pc = "done"
                           /\ calls[d].userId = calls[c].userId
                           /\ calls[d].status = "OK"
    /\ \A c \in Calls, d \in Calls :
         (/\ c # d
          /\ calls[c].pc = "done" /\ calls[d].pc = "done"
          /\ calls[c].userId = calls[d].userId)
            => ~(calls[c].status = "OK" /\ calls[d].status = "OK")

C8_Witness ==
    \E c \in Calls, d \in Calls :
        /\ calls[c].pc = "done" /\ calls[d].pc = "done"
        /\ calls[c].userId = calls[d].userId
        /\ calls[c].status = "OK"
        /\ calls[d].status = "Conflict"
        /\ calls[c].activityId # calls[d].activityId

\* C9: a createUserActivity of an eligible user who holds no registration,
\* naming an activity that does not exist, is answered BadRequest and adds
\* no row; a createUserActivity of the same user that follows it and names
\* an existing activity succeeds.
C9_Step ==
    /\ (/\ last'.op = "createUserActivity"
        /\ Eligible(last'.userId)
        /\ RegistrationsOf(last'.userId) = {}
        /\ ~ActivityExists(last'.arg))
          => /\ last'.status = "BadRequest"
             /\ last'.body = <<>>
             /\ userActivities' = userActivities
    /\ (/\ last.op = "createUserActivity"
        /\ last.status = "BadRequest"
        /\ last'.op = "createUserActivity"
        /\ last'.userId = last.userId
        /\ ActivityExists(last'.arg))
          => /\ last'.status = "OK"
             /\ \E ua \in userActivities' \ userActivities :
                   ua.userId = last'.userId /\ ua.activityId = last'.arg

C9_UnknownActivityBadRequest == [][C9_Step]_vars

C9_Witness ==
    /\ last.op = "createUserActivity"
    /\ last.status = "BadRequest"
    /\ Eligible(last.userId)
    /\ ~ActivityExists(last.arg)
    /\ activities # <<>>
    /\ RegistrationsOf(last.userId) = {}
    /\ userActivities # {}

\* C10: when the hotel guard passes, getHotelsWithRooms is answered NotFound
\* if no hotel has the id asked for, and otherwise with that hotel and
\* exactly its rooms; when the guard fails, the answer is the guard's error,
\* whether or not the hotel exists.
C10_HotelWithRooms ==
    last.op = "getHotelsWithRooms"
        => IF PaidInPerson(last.userId) /\ IncludesHotel(last.userId)
             THEN IF \E i \in DOMAIN hotels : hotels[i].id = last.arg
                    THEN /\ last.status = "OK"
                         /\ Len(last.body) = 1
                         /\ last.body[1].id = last.arg
                         /\ last.body[1].Rooms
                              = {r \in rooms : r.hotelId = last.arg}
                  ELSE last.status = "NotFound" /\ last.body = <<>>
           ELSE /\ last.status = IF HasEnrollment(last.userId)
                                   THEN "CannotListHotels" ELSE "NotFound"
                /\ last.body = <<>>

C10_Witness ==
    /\ last.op = "getHotelsWithRooms"
    /\ PaidInPerson(last.userId)
    /\ IncludesHotel(last.userId)
    /\ hotels # <<>>
    /\ \A i \in DOMAIN hotels : hotels[i].id # last.arg
    /\ last.status = "NotFound"

====
